---- MODULE Spec2Model ----
(***************************************************************************)
(* Model of eastereig/eigSolvers.py: the EigSolver abstract class and its  *)
(* three concrete solvers (NumpyEigSolver, ScipySpEigSolver,               *)
(* PetscEigSolver), seen as the state machine of ONE solver instance and   *)
(* of the caller that drives it: construct, solve, sort, extract, destroy. *)
(*                                                                         *)
(* Conventions.                                                            *)
(*  - A complex eigenvalue is a record [re, im] of small integers.         *)
(*  - Python positions are 0-based and are kept 0-based in idx, skip_idx   *)
(*    and eig_list; a TLA+ sequence is read at position p with At(s, p).   *)
(*  - The eigenvector that the backend computed together with its j-th     *)
(*    eigenvalue (solve order, 0-based) has content j; a value written by  *)
(*    the caller has content Scribble.                                     *)
(*  - attrs is the set of attributes that exist on the instance (Python    *)
(*    raises AttributeError when an attribute that was never assigned is   *)
(*    read).                                                               *)
(***************************************************************************)
EXTENDS Integers, Sequences, FiniteSets

VARIABLES
    phase,      \* "new" (before __init__), "constructed", "failed" (__init__
                \* raised), "destroyed" (destroy was called), "written" (the
                \* caller has written into an eigenvector it was given)
    lib,        \* _lib of the instance's class: "numpy", "scipysp", "petsc"
    attrs,      \* names of the attributes set on the instance
    pb_type,    \* self.pb_type
    Lda,        \* self.Lda
    idx,        \* self.idx
    nconv,      \* self.nconv
    Vec,        \* self.Vec (numpy, scipysp): content of each column
    E,          \* self.E (petsc): id of the bound solver context, 0 when unbound
    bindings,   \* setOperators calls made by the most recent _create, in order
    released,   \* released[c]: how many times the solver released the c-th
                \* context it created
    backend,    \* eigenvalues, in solve order, that the backend computes for K
    L0,         \* self.Lda on entry of the most recent sort
    extracted,  \* Eig records the caller holds: those of the most recent
                \* extract, until its next call of solve, sort or destroy
    nsort,      \* number of sort calls the caller made since the last solve
    stale,      \* TRUE when self.Lda was replaced by a solve whose sort raised,
                \* until a sort or a solve runs to its end
    last        \* the most recent call: operation, arguments, outcome

vars == <<phase, lib, attrs, pb_type, Lda, idx, nconv, Vec, E, bindings,
          released, backend, L0, extracted, nsort, stale, last>>

----------------------------------------------------------------------------
(* Bounds of the model                                                     *)

\* largest number of eigenpairs a backend returns in one solve
MaxConv == 2
\* largest number of solver contexts one instance creates
MaxSolves == 2
\* largest number of sort calls the caller makes after one solve
MaxSorts == 1
\* longest eig_list passed to extract
MaxExtract == 1

\* content the caller writes into an eigenvector it was given
Scribble == 0 - 1

\* eigenvalues the backends may return: ties for each key between distinct
\* values, and positive, zero and negative imaginary parts
Eigenvalues ==
    { [re |-> 1, im |-> 1], [re |-> 1, im |-> -1], [re |-> -1, im |-> 1],
      [re |-> 2, im |-> 0] }

Tags == {"std", "gen", "PEP", "bogus"}
\* the omitted key argument
NoKey == "<default>"
SortKeys == {"abs", "real", "imag", "phase"}

----------------------------------------------------------------------------
(* Helpers for 0-based indexing                                            *)

At(s, p) == s[p + 1]

\* numpy fancy indexing s[ix]
Take(s, ix) == [k \in 1..Len(ix) |-> At(s, ix[k])]

\* np.arange(n) as a sequence
Arange(n) == [k \in 1..n |-> k - 1]

\* sequences over S of length lo..hi
SeqsOf(S, lo, hi) == UNION { [1..n -> S] : n \in lo..hi }

----------------------------------------------------------------------------
(* EigSolver.sort                                                          *)

\* key_func_dict: np.abs, np.imag, np.real.  The magnitude is represented
\* by its square, which orders and ties exactly as the magnitude does.
key_func_dict == {"abs", "imag", "real"}

key_func(key, z) ==
    CASE key = "abs"  -> z.re * z.re + z.im * z.im
      [] key = "imag" -> z.im
      [] key = "real" -> z.re

\* positions p (ascending) of s that satisfy keep(s, p), as np.where lists them
RECURSIVE WherePos(_, _, _)
WherePos(flags, p, acc) ==
    IF p >= Len(flags) THEN acc
    ELSE WherePos(flags, p + 1, IF At(flags, p) THEN Append(acc, p) ELSE acc)

\* np.where(self.Lda.imag>0)[0], with >= in place of >
skip_idx_nonneg(L) == WherePos([k \in 1..Len(L) |-> L[k].im >= 0], 0, <<>>)

\* np.where(self.Lda.imag>0)[0]
skip_idx_of(L) == WherePos([k \in 1..Len(L) |-> L[k].im > 0], 0, <<>>)

\* permutations of 0..n-1 as sequences
Permutations(n) ==
    { p \in [1..n -> 0..(n - 1)] : \A a, b \in 1..n : a # b => p[a] # p[b] }

\* np.argsort(ks) with the default kind ('quicksort'): numpy documents it as
\* not stable, and which order it gives to equal keys depends on the build
\* (insertion sort on short arrays without SIMD dispatch, a sorting network
\* with it).  Every permutation that puts ks in ascending order is a
\* possible result.
argsort(ks) ==
    { p \in Permutations(Len(ks)) :
        \A k \in 1..(Len(ks) - 1) : At(ks, p[k]) <= At(ks, p[k + 1]) }

\* self.idx = skip_idx[self.idx], with the composition left out
global_idx_local(skip_idx, perm) == perm

\* self.idx = skip_idx[self.idx]
global_idx(skip_idx, perm) == Take(skip_idx, perm)

\* The body of sort past the key lookup, on self.Lda = L: the possible
\* values of self.Lda, self.idx and self.nconv when it returns.
SortFrom(L, key, skipsym) ==
    LET skip_idx == skip_idx_of(L)
        F == IF skipsym THEN Take(L, skip_idx) ELSE L
    IN { [err |-> "none",
          Lda |-> Take(F, perm),
          idx |-> IF skipsym THEN global_idx(skip_idx, perm) ELSE perm,
          nconv |-> Len(F)] :
         perm \in argsort([k \in 1..Len(F) |-> key_func(key, F[k])]) }

\* sort with the filter applied before the key is looked up
sort_filter_first(self, key, skipsym) ==
    IF key \in key_func_dict
    THEN SortFrom(self.Lda, key, skipsym)
    ELSE { [err |-> "AttributeError",
            Lda |-> IF skipsym THEN Take(self.Lda, skip_idx_of(self.Lda)) ELSE self.Lda,
            idx |-> self.idx, nconv |-> self.nconv] }

\* The possible outcomes of self.sort(key, skipsym) on an instance whose
\* fields are self = [Lda, idx, nconv]: records [err, Lda, idx, nconv].  The
\* key is looked up first; an unknown key raises before anything is changed.
sort(self, key, skipsym) ==
    IF key \in key_func_dict
    THEN SortFrom(self.Lda, key, skipsym)
    ELSE { [err |-> "AttributeError",
            Lda |-> self.Lda, idx |-> self.idx, nconv |-> self.nconv] }

Self == [Lda |-> Lda, idx |-> idx, nconv |-> nconv]

----------------------------------------------------------------------------
(* The record of the most recent call                                      *)

Call(op, err, key, skipsym, eig_list, tag) ==
    [op |-> op, err |-> err, key |-> key, skipsym |-> skipsym,
     eig_list |-> eig_list, tag |-> tag]

Init ==
    /\ phase = "new"
    /\ lib = "none"
    /\ attrs = {}
    /\ pb_type = ""
    /\ Lda = <<>>
    /\ idx = <<>>
    /\ nconv = 0
    /\ Vec = <<>>
    /\ E = 0
    /\ bindings = <<>>
    /\ released = <<>>
    /\ backend = <<>>
    /\ L0 = <<>>
    /\ extracted = <<>>
    /\ nsort = 0
    /\ stale = FALSE
    /\ last = Call("none", "none", NoKey, FALSE, <<>>, "")

----------------------------------------------------------------------------
(* Construction                                                            *)

\* What a backend may compute for the operator set K: lo..MaxConv eigenvalues
\* in solve order.  K is fixed when the instance is built and nev and target,
\* which the solvers only pass through to the backend, are the same in every
\* solve of an instance, so every solve of an instance obtains the same list.
BackendResults(lo) == SeqsOf(Eigenvalues, lo, MaxConv)

\* the problem types the dense and sparse solve methods have a branch for
BASE_PB_TYPES == {"std", "gen"}

\* PetscEigSolver.PB_TYPE_FACTORY: problem type -> SLEPc factory
PB_TYPE_FACTORY ==
    [t \in {"std", "gen", "PEP"} |-> IF t = "PEP" THEN "PEP" ELSE "EPS"]

\* EigSolver.__init__, inherited unchanged by NumpyEigSolver and
\* ScipySpEigSolver: stores pb_type and K, checks nothing.
BaseInit(l, tag, res) ==
    /\ phase = "new"
    /\ l \in {"numpy", "scipysp"}
    /\ backend' = res
    /\ lib' = l
    /\ pb_type' = tag
    /\ attrs' = {"pb_type", "K"}
    /\ phase' = "constructed"
    /\ last' = Call("init", "none", NoKey, FALSE, <<>>, tag)
    /\ UNCHANGED <<Lda, idx, nconv, Vec, E, bindings, released,
                   L0, extracted, nsort, stale>>

\* PetscEigSolver.__init__: an unknown tag is refused before anything is
\* stored.  The message of the NotImplementedError is formatted from
\* self.pb_type, which is read before it is first assigned, so the read
\* raises AttributeError when the attribute does not exist yet.
PetscInit(tag, res) ==
    /\ phase = "new"
    /\ backend' = res
    /\ lib' = "petsc"
    /\ IF tag \notin DOMAIN PB_TYPE_FACTORY
       THEN /\ phase' = "failed"
            /\ last' = Call("init",
                            IF "pb_type" \in attrs THEN "NotImplementedError"
                                                   ELSE "AttributeError",
                            NoKey, FALSE, <<>>, tag)
            /\ UNCHANGED <<pb_type, attrs>>
       ELSE /\ phase' = "constructed"
            /\ pb_type' = tag
            /\ attrs' = {"pb_type", "_SLEPc_PB", "K"}
            /\ last' = Call("init", "none", NoKey, FALSE, <<>>, tag)
    /\ UNCHANGED <<Lda, idx, nconv, Vec, E, bindings, released,
                   L0, extracted, nsort, stale>>

----------------------------------------------------------------------------
(* NumpyEigSolver.solve and ScipySpEigSolver.solve                         *)

\* The two methods have the same text but for the backend routine.  Their
\* signature is (nev, target, skipsym): a call that passes key is refused by
\* the interpreter (TypeError) before the body runs.  The body sorts with
\* the default key of sort, 'abs'.
BaseSolve(key, skipsym) ==
    /\ phase = "constructed"
    /\ lib \in {"numpy", "scipysp"}
    /\ extracted' = <<>>
    /\ IF key # NoKey
       THEN /\ last' = Call("solve", "TypeError", key, skipsym, <<>>, "")
            /\ UNCHANGED <<attrs, Lda, idx, nconv, Vec, L0, nsort, stale>>
       ELSE IF pb_type \notin BASE_PB_TYPES
       THEN /\ last' = Call("solve", "NotImplementedError", key, skipsym, <<>>, "")
            /\ UNCHANGED <<attrs, Lda, idx, nconv, Vec, L0, nsort, stale>>
       ELSE \E o \in sort([Lda |-> backend, idx |-> idx, nconv |-> nconv], "abs", skipsym) :
            /\ Lda' = o.Lda
            /\ idx' = o.idx
            /\ nconv' = o.nconv
            /\ Vec' = Take(Arange(Len(backend)), o.idx)
            /\ attrs' = attrs \cup {"Lda", "idx", "nconv", "Vec"}
            /\ L0' = backend
            /\ nsort' = 0
            /\ stale' = FALSE
            /\ last' = Call("solve", "none", key, skipsym, <<>>, "")
    /\ UNCHANGED <<phase, lib, pb_type, E, bindings, released, backend>>

----------------------------------------------------------------------------
(* PetscEigSolver._create and PetscEigSolver.solve                          *)

\* the operator bindings with the whole-set binding made for every type but
\* 'std', after the binding of 'gen'
OperatorBindings_fallthrough(t) ==
    (IF t = "std" THEN << "*K" >> ELSE <<>>)
    \o (IF t = "gen" THEN << "K[0],-K[1]" >> ELSE <<>>)
    \o (IF t # "std" THEN << "K" >> ELSE <<>>)

\* The E.setOperators calls of _create, in order: an `if` on 'std', then a
\* separate `if` on 'gen' whose `else` is the whole-set binding.
OperatorBindings(t) ==
    (IF t = "std" THEN << "*K" >> ELSE <<>>)
    \o (IF t = "gen" THEN << "K[0],-K[1]" >> ELSE << "K" >>)

\* PetscEigSolver.solve.  _create builds a new solver context, binds the
\* operators (whether the backend accepts each binding is the backend's
\* business) and rebinds self.E to the new context; the context self.E was
\* bound to is not destroyed.  Then the backend solves, the eigenvalues are
\* read back in solve order into self.Lda and sorted.  When sort raises
\* (unknown key) the error leaves solve with self.E rebound and self.Lda the
\* unsorted list, self.idx and self.nconv being those of an earlier solve or
\* absent.
PetscSolve(key, skipsym) ==
    /\ phase = "constructed"
    /\ lib = "petsc"
    /\ Len(released) < MaxSolves
    /\ bindings' = OperatorBindings(pb_type)
    /\ released' = Append(released, 0)
    /\ E' = Len(released) + 1
    /\ \E o \in sort([Lda |-> backend, idx |-> idx, nconv |-> nconv],
                     IF key = NoKey THEN "abs" ELSE key, skipsym) :
          /\ Lda' = o.Lda
          /\ idx' = o.idx
          /\ nconv' = o.nconv
          /\ L0' = IF o.err = "none" THEN backend ELSE L0
          /\ attrs' = attrs \cup {"E", "Lda"}
                         \cup (IF o.err = "none" THEN {"idx", "nconv"} ELSE {})
          /\ stale' = (o.err # "none")
          /\ last' = Call("solve", o.err, key, skipsym, <<>>, "")
    /\ extracted' = <<>>
    /\ nsort' = 0
    /\ UNCHANGED <<phase, lib, pb_type, Vec, backend>>

----------------------------------------------------------------------------
(* EigSolver.sort called by the caller                                     *)

Sort(key, skipsym) ==
    /\ phase = "constructed"
    /\ nsort < MaxSorts
    /\ nsort' = nsort + 1
    /\ extracted' = <<>>
    /\ IF "Lda" \notin attrs
       THEN \* unknown key, or self.Lda read before any solve
            /\ last' = Call("sort", "AttributeError", key, skipsym, <<>>, "")
            /\ UNCHANGED <<Lda, idx, nconv, attrs, L0, stale>>
       ELSE \E o \in sort(Self, key, skipsym) :
            /\ Lda' = o.Lda
            /\ idx' = o.idx
            /\ nconv' = o.nconv
            /\ L0' = IF o.err = "none" THEN Lda ELSE L0
            /\ attrs' = IF o.err = "none" THEN attrs \cup {"idx", "nconv"} ELSE attrs
            /\ stale' = (stale /\ o.err # "none")
            /\ last' = Call("sort", o.err, key, skipsym, <<>>, "")
    /\ UNCHANGED <<phase, lib, pb_type, Vec, E, bindings, released, backend>>

----------------------------------------------------------------------------
(* extract                                                                 *)

\* The Eig record: backend tag, eigenvalue, eigenvector, kept as given.
Eig(l, lda, x) == [lib |-> l, lda |-> lda, x |-> x]

\* self.Vec[:,i]: basic slicing of a numpy array gives a view of column i
ColumnView(i) == [view |-> TRUE, col |-> i, val |-> 0]

\* vr.copy(): a new vector holding the values of vr
VecCopy(content) == [view |-> FALSE, col |-> 0, val |-> content]

\* what reading an eigenvector handed to the caller yields
Content(x) == IF x.view THEN At(Vec, x.col) ELSE x.val

\* index lists of 1..MaxExtract positions
EigLists == SeqsOf(0..(MaxConv - 1), 1, MaxExtract)

\* the caller passes positions of the sorted eigenvalue list only
ValidEigList(eig_list) == \A k \in 1..Len(eig_list) : eig_list[k] \in 0..(Len(Lda) - 1)

\* EigSolver.extract (dense and sparse solvers)
BaseExtract(eig_list) ==
    /\ phase = "constructed"
    /\ lib \in {"numpy", "scipysp"}
    /\ {"Lda", "Vec"} \subseteq attrs
    /\ ValidEigList(eig_list)
    /\ extracted' = [k \in 1..Len(eig_list) |->
                        Eig(lib, At(Lda, eig_list[k]), ColumnView(eig_list[k]))]
    /\ last' = Call("extract", "none", NoKey, FALSE, eig_list, "")
    /\ UNCHANGED <<phase, lib, attrs, pb_type, Lda, idx, nconv, Vec, E, bindings,
                   released, backend, L0, nsort, stale>>

\* E.getEigenpair(j, vr): eigenvalue j of the bound context, its eigenvector
\* written into vr
getEigenpair(j) == [lda |-> At(backend, j), vr |-> j]

\* PetscEigSolver.extract.  self.idx is read for each position: it is absent
\* when the only solve so far raised in sort (AttributeError), and it may be
\* shorter than self.Lda when it is that of an earlier solve (IndexError).
PetscExtract(eig_list) ==
    /\ phase = "constructed"
    /\ lib = "petsc"
    /\ {"Lda", "E"} \subseteq attrs
    /\ ValidEigList(eig_list)
    /\ IF "idx" \notin attrs
       THEN /\ last' = Call("extract", "AttributeError", NoKey, FALSE, eig_list, "")
            /\ UNCHANGED extracted
       ELSE IF \E k \in 1..Len(eig_list) : eig_list[k] >= Len(idx)
       THEN /\ last' = Call("extract", "IndexError", NoKey, FALSE, eig_list, "")
            /\ UNCHANGED extracted
       ELSE /\ extracted' = [k \in 1..Len(eig_list) |->
                               LET pair == getEigenpair(At(idx, eig_list[k]))
                               IN Eig(lib, pair.lda, VecCopy(pair.vr))]
            /\ last' = Call("extract", "none", NoKey, FALSE, eig_list, "")
    /\ UNCHANGED <<phase, lib, attrs, pb_type, Lda, idx, nconv, Vec, E, bindings,
                   released, backend, L0, nsort, stale>>

\* The caller overwrites the eigenvector of a record it was given; the model
\* follows the instance up to the first such write.
Write(k) ==
    /\ phase = "constructed"
    /\ k \in 1..Len(extracted)
    /\ phase' = "written"
    /\ IF extracted[k].x.view
       THEN /\ Vec' = [Vec EXCEPT ![extracted[k].x.col + 1] = Scribble]
            /\ UNCHANGED extracted
       ELSE /\ extracted' = [extracted EXCEPT ![k].x.val = Scribble]
            /\ UNCHANGED Vec
    /\ last' = Call("write", "none", NoKey, FALSE, <<k - 1>>, "")
    /\ UNCHANGED <<lib, attrs, pb_type, Lda, idx, nconv, E, bindings,
                   released, backend, L0, nsort, stale>>

----------------------------------------------------------------------------
(* destroy                                                                 *)

\* EigSolver.destroy: pass.  destroy is the caller's last call on an instance.
BaseDestroy ==
    /\ phase = "constructed"
    /\ lib \in {"numpy", "scipysp"}
    /\ phase' = "destroyed"
    /\ last' = Call("destroy", "none", NoKey, FALSE, <<>>, "")
    /\ extracted' = <<>>
    /\ UNCHANGED <<lib, attrs, pb_type, Lda, idx, nconv, Vec, E, bindings,
                   released, backend, L0, nsort, stale>>

\* PetscEigSolver.destroy: self.E.destroy() releases the context self.E is
\* bound to.
PetscDestroy ==
    /\ phase = "constructed"
    /\ lib = "petsc"
    /\ phase' = "destroyed"
    /\ IF "E" \notin attrs
       THEN /\ last' = Call("destroy", "AttributeError", NoKey, FALSE, <<>>, "")
            /\ UNCHANGED released
       ELSE /\ released' = [released EXCEPT ![E] = @ + 1]
            /\ last' = Call("destroy", "none", NoKey, FALSE, <<>>, "")
    /\ extracted' = <<>>
    /\ UNCHANGED <<lib, attrs, pb_type, Lda, idx, nconv, Vec, E, bindings,
                   backend, L0, nsort, stale>>

----------------------------------------------------------------------------

Next ==
    \/ \E l \in {"numpy", "scipysp"}, tag \in Tags, res \in BackendResults(1) :
          BaseInit(l, tag, res)
    \/ \E tag \in Tags, res \in BackendResults(0) : PetscInit(tag, res)
    \/ \E key \in SortKeys \cup {NoKey}, skipsym \in BOOLEAN :
          BaseSolve(key, skipsym)
    \/ \E key \in SortKeys \cup {NoKey}, skipsym \in BOOLEAN :
          PetscSolve(key, skipsym)
    \/ \E key \in SortKeys, skipsym \in BOOLEAN : Sort(key, skipsym)
    \/ \E eig_list \in EigLists : BaseExtract(eig_list)
    \/ \E eig_list \in EigLists : PetscExtract(eig_list)
    \/ \E k \in 1..MaxExtract : Write(k)
    \/ BaseDestroy
    \/ PetscDestroy

Spec == Init /\ [][Next]_vars

\* construction, solve and sort alone
NextSolve ==
    \/ \E l \in {"numpy", "scipysp"}, tag \in Tags, res \in BackendResults(1) :
          BaseInit(l, tag, res)
    \/ \E tag \in Tags, res \in BackendResults(0) : PetscInit(tag, res)
    \/ \E key \in SortKeys \cup {NoKey}, skipsym \in BOOLEAN :
          BaseSolve(key, skipsym)
    \/ \E key \in SortKeys \cup {NoKey}, skipsym \in BOOLEAN :
          PetscSolve(key, skipsym)
    \/ \E key \in SortKeys, skipsym \in BOOLEAN : Sort(key, skipsym)

SpecSolve == Init /\ [][NextSolve]_vars

----------------------------------------------------------------------------
(* Vocabulary of the properties                                            *)

\* a call of op has just returned normally
Returned(op) == last.op = op /\ last.err = "none"

\* sort has just run to its end: called by the caller, or inside solve
Sorted == Returned("sort") \/ Returned("solve")

\* the key that sort used
UsedKey == IF last.key = NoKey THEN "abs" ELSE last.key

\* number of occurrences of z in the sequence s
Count(s, z) == Cardinality({ k \in 1..Len(s) : s[k] = z })

\* s is in ascending order of the key
Ascending(s, key) ==
    \A k \in 1..(Len(s) - 1) : key_func(key, s[k]) <= key_func(key, s[k + 1])

\* the problem types each concrete solver supports
Supported(l) == IF l = "petsc" THEN DOMAIN PB_TYPE_FACTORY ELSE BASE_PB_TYPES

\* no two eigenvalues of s have the same magnitude, real or imaginary part
DistinctKeys(s) ==
    \A a, b \in 1..Len(s), key \in key_func_dict :
        a # b => key_func(key, s[a]) # key_func(key, s[b])

\* C1 (original statement): after solve and any number of sort calls, every
\* record extract([i])[0] carries the eigenvalue Lda[i] and an eigenvector
\* that the backend computed for that eigenvalue.  Stated for eigenvalues
\* without equal keys, where the order a sort gives is unique, and for an
\* instance whose most recent solve or sort ran to its end.
C1_RoundTripExtract ==
    (Returned("extract") /\ DistinctKeys(backend) /\ ~stale) =>
        \A k \in 1..Len(extracted) :
            LET i == last.eig_list[k]
                r == extracted[k]
            IN /\ r.lda = At(Lda, i)
               /\ Content(r.x) # Scribble => At(backend, Content(r.x)) = At(Lda, i)

\* C2: after one call of sort on the list L0, Lda, idx and nconv have the
\* same length, every idx[i] is a position of L0 and Lda[i] = L0[idx[i]],
\* filtered or not.
C2_PermutationIndex ==
    Sorted =>
        /\ Len(Lda) = Len(idx)
        /\ nconv = Len(Lda)
        /\ \A i \in 0..(Len(Lda) - 1) :
              /\ At(idx, i) \in 0..(Len(L0) - 1)
              /\ At(Lda, i) = At(L0, At(idx, i))

\* a filtering sort whose index is not the identity of the sorted positions
C2_Witness ==
    /\ Returned("sort")
    /\ last.skipsym
    /\ Len(Lda) >= 1
    /\ Len(Lda) < Len(L0)
    /\ \E i \in 0..(Len(Lda) - 1) : At(idx, i) # i

\* C3 (original statement): sort is stable: the result is in ascending order
\* of the key and entries with equal keys keep their relative order of L0,
\* in Lda and in idx.
C3_SortStable ==
    Sorted =>
        /\ Ascending(Lda, UsedKey)
        /\ \A i, j \in 0..(Len(Lda) - 1) :
              (i < j /\ key_func(UsedKey, At(Lda, i)) = key_func(UsedKey, At(Lda, j)))
                  => At(idx, i) < At(idx, j)

\* C4: sort with skipsym keeps exactly the entries of the list whose
\* imaginary part is strictly positive, and without skipsym keeps them all.
C4_SymmetricFilter ==
    Sorted =>
        \A z \in Eigenvalues :
            Count(Lda, z) = IF last.skipsym /\ ~(z.im > 0) THEN 0 ELSE Count(L0, z)

\* a filtering sort that dropped an entry of zero or negative imaginary part
\* and kept an entry of positive imaginary part
C4_Witness ==
    /\ Sorted
    /\ last.skipsym
    /\ \E k \in 1..Len(L0) : L0[k].im = 0 \/ L0[k].im < 0
    /\ \E k \in 1..Len(L0) : L0[k].im > 0
    /\ \A k \in 1..Len(Lda) : Lda[k].im > 0
    /\ Len(Lda) >= 1

\* C5 (original statement): constructing a solver with a problem type outside
\* its supported set fails at construction with the unsupported-problem-type
\* error and leaves neither pb_type nor K set.
C5_ConstructionValidation ==
    (last.op = "init" /\ last.tag \notin Supported(lib)) =>
        /\ phase = "failed"
        /\ last.err = "NotImplementedError"
        /\ attrs \cap {"pb_type", "K"} = {}

\* C6 (original statement): on every concrete solver of a supported problem
\* type, solve called with a key in {abs, real, imag} returns the eigenvalue
\* list in ascending order of that key.
C6_UniformSolve ==
    (/\ last.op = "solve"
     /\ last.key \in key_func_dict
     /\ pb_type \in Supported(lib)) =>
        /\ last.err = "none"
        /\ Ascending(Lda, last.key)

\* C7 (original statement): the eigenvector of a record returned by extract
\* is a fresh copy: a write of the caller to it leaves the solver's Vec as it
\* was.
C7_FreshCopy == [][last'.op = "write" => Vec' = Vec]_vars

\* C8 (original statement): after one or more solve calls and one destroy
\* call, every solver context the instance created has been released exactly
\* once.
C8_ReleaseOnce ==
    (phase = "destroyed" /\ lib = "petsc" /\ last.err = "none") =>
        \A c \in 1..Len(released) : released[c] = 1

\* C9: sort with a key outside {abs, real, imag} fails with the unknown-key
\* error (AttributeError) for both values of skipsym and leaves Lda, idx and
\* nconv as they were: as they were before the call when the caller calls
\* sort, and as the distributed solve had them when it called sort (Lda the
\* list read back from the backend, idx and nconv not yet touched).
C9_UnknownKey ==
    [][/\ (last'.op = "sort" /\ last'.key \notin key_func_dict) =>
             /\ last'.err = "AttributeError"
             /\ Lda' = Lda
             /\ idx' = idx
             /\ nconv' = nconv
       /\ (last'.op = "solve" /\ lib = "petsc"
              /\ last'.key \notin key_func_dict \cup {NoKey}) =>
             /\ last'.err = "AttributeError"
             /\ Lda' = backend
             /\ idx' = idx
             /\ nconv' = nconv]_vars

\* sort with an unknown key and skipsym, on a list the filter would shorten
C9_Witness ==
    /\ last.op = "sort"
    /\ last.key \notin key_func_dict
    /\ last.skipsym
    /\ "Lda" \in attrs
    /\ \E k \in 1..Len(Lda) : ~(Lda[k].im > 0)

\* C10: in the distributed solver's configuration for 'gen' the last
\* operator binding made is (K[0], -K[1]).
C10_GenBinding ==
    (lib = "petsc" /\ pb_type = "gen" /\ bindings # <<>>) =>
        bindings[Len(bindings)] = "K[0],-K[1]"

\* a 'gen' configuration has run to its end
C10_Witness ==
    /\ lib = "petsc"
    /\ pb_type = "gen"
    /\ Returned("solve")
    /\ Len(bindings) >= 1

\* C11 (original statement): in the distributed solver's configuration the
\* fallback binding of the whole operator set K is made exactly for the
\* problem types other than 'std', and for 'std' exactly one binding is made,
\* with the operator set unpacked.
C11_FallbackBinding ==
    (lib = "petsc" /\ bindings # <<>>) =>
        /\ (\E k \in 1..Len(bindings) : bindings[k] = "K") <=> pb_type # "std"
        /\ pb_type = "std" => bindings = << "*K" >>

====
